---- MODULE Spec2Model ----
(***************************************************************************)
(* Model of scripts/validate_theory.py: the BN254 scalar-field helpers,    *)
(* the proof layout calculator (Proof.expected_fr_count), the VK and proof *)
(* decoders (VerificationKey.from_bytes, Proof.from_bytes), the proof's    *)
(* section accessors, the parameter auto-detection loop of                 *)
(* validate_proof_structure, the sumcheck round-zero check and main().     *)
(*                                                                         *)
(* Byte strings are sequences of integers in 0..255.  A Python exception   *)
(* is a result record whose err field names the exception; a normal return *)
(* has err = "none".  Python slices clamp to the sequence (Slice), Python  *)
(* indexing raises IndexError outside it (InRange).                        *)
(*                                                                         *)
(* The model checker's integers are 32 bits wide, so the 254-bit modulus   *)
(* BN254_R is scaled down to an 8-bit prime and big-endian conversions     *)
(* reduce while they accumulate; header integers of the generated VK files *)
(* are kept below 2^24.                                                    *)
(***************************************************************************)
EXTENDS Integers, Sequences, FiniteSets, TLC

VARIABLES pc, call, vk_data, vk, proof_data, log_n, is_zk, proof, acc, report

vars == <<pc, call, vk_data, vk, proof_data, log_n, is_zk, proof, acc, report>>

(***************************************************************************)
(* Bounds of the model.                                                    *)
(***************************************************************************)
\* Scaled-down stand-in for the BN254 scalar field modulus (line 20).
BN254_R == 251
\* Largest log_n handed to the layout calculator in SpecLayout.
MaxLogN == 60
\* Largest second operand of the field calls in SpecField.
MaxOperand == 12
\* Number of byte patterns of the generated VK files in SpecVK.
MaxSeed == 11
\* Proof decoder calls use log_n in 0..MaxSmallLogN and log_n = 17.
MaxSmallLogN == 4
\* main() runs on proofs and VKs of log_n in 3..MaxMainLogN.
MaxMainLogN == 9

(***************************************************************************)
(* Program constants.                                                      *)
(***************************************************************************)
\* range(4, 30) of the detection loop.
DetectLo == 4
DetectHi == 30

\* The value of a variable that holds no result yet.
None == [fn |-> "none", err |-> "unset"]
NoBytes == <<>>

Min(a, b) == IF a < b THEN a ELSE b

\* s[a:b] of Python for a, b >= 0 (0-based, half open, clamped to the sequence).
Slice(s, a, b) == SubSeq(s, Min(a, Len(s)) + 1, Min(b, Len(s)))

\* Whether s[i] of Python (0-based, i >= 0) is inside the sequence.
InRange(s, i) == i >= 0 /\ i < Len(s)

(***************************************************************************)
(* Field arithmetic (lines 22-44).                                         *)
(***************************************************************************)
RECURSIVE IntFromBytesMod(_, _, _)
\* int.from_bytes(b, 'big') % m, reducing at every digit; sofar is the value so far.
IntFromBytesMod(b, m, sofar) ==
    IF b = <<>> THEN sofar % m
    ELSE IntFromBytesMod(Tail(b), m, (sofar * 256 + Head(b)) % m)

RECURSIVE IntFromBytes(_, _)
\* int.from_bytes(b, 'big') for values that fit the checker's integers.
IntFromBytes(b, sofar) ==
    IF b = <<>> THEN sofar ELSE IntFromBytes(Tail(b), sofar * 256 + Head(b))

int_from_bytes(b) == IntFromBytes(b, 0)

fr_from_bytes(b) == IntFromBytesMod(b, BN254_R, 0)

fr_add(a, b) == (a + b) % BN254_R

fr_sub(a, b) == (a - b) % BN254_R

fr_mul(a, b) == (a * b) % BN254_R

RECURSIVE pow(_, _, _)
\* pow(a, e, m) of Python for e >= 0: never raises, returns a^e mod m.
pow(a, e, m) ==
    IF e = 0 THEN 1 % m
    ELSE LET h == pow(a, e \div 2, m)
             sq == (h * h) % m
         IN IF e % 2 = 0 THEN sq ELSE (sq * (a % m)) % m

\* fr_inv returns the Fermat power and has no guard for a = 0.
fr_inv(a) == [err |-> "none", ret |-> pow(a, BN254_R - 2, BN254_R)]

fr_div(a, b) ==
    LET inv == fr_inv(b)
    IN IF inv.err # "none" THEN inv
       ELSE [err |-> "none", ret |-> fr_mul(a, inv.ret)]

(***************************************************************************)
(* Layout calculator (lines 86-128).                                       *)
(***************************************************************************)
\* Mutant: the gemini fold section counts log_n commitments, not log_n - 1.
expected_fr_count_fold(n, z) ==
    16 + 16 + (IF z THEN 3 ELSE 0) + n * (IF z THEN 9 ELSE 8)
      + (IF z THEN 41 ELSE 40) + (IF z THEN 8 ELSE 0) + n * 2 + n
      + (IF z THEN 2 ELSE 0) + 4 + (IF z THEN 2 ELSE 1)

\* Mutant: the univariate lengths of the two modes are swapped.
expected_fr_count_swap(n, z) ==
    16 + 16 + (IF z THEN 3 ELSE 0) + n * (IF z THEN 8 ELSE 9)
      + (IF z THEN 41 ELSE 40) + (IF z THEN 8 ELSE 0) + (n - 1) * 2 + n
      + (IF z THEN 2 ELSE 0) + 4 + (IF z THEN 2 ELSE 1)

\* Proof.expected_fr_count: the running size after each statement.
expected_fr_count(n, z) ==
    LET s0 == 0
        s1 == s0 + 16                                \* pairing point object
        s2 == s1 + 16                                \* wire commitments
        s3 == IF z THEN s2 + 3 ELSE s2               \* libra concat + sum
        univariate_len == IF z THEN 9 ELSE 8
        s4 == s3 + n * univariate_len                \* sumcheck univariates
        s5 == s4 + (IF z THEN 41 ELSE 40)            \* sumcheck evaluations
        s6 == IF z THEN s5 + 8 ELSE s5               \* libra post-sumcheck
        s7 == s6 + (n - 1) * 2                       \* gemini fold commitments
        s8 == s7 + n                                 \* gemini A evaluations
        s9 == IF z THEN s8 + 2 ELSE s8               \* small IPA
        s10 == s9 + 4                                \* shplonk Q + KZG W
        s11 == s10 + (IF z THEN 2 ELSE 1)            \* extra protocol data
    IN s11

(***************************************************************************)
(* Calls of the pure functions: SpecLayout and SpecField.                  *)
(***************************************************************************)
Idle ==
    /\ vk_data = NoBytes /\ vk = None
    /\ proof_data = NoBytes /\ log_n = 0 /\ is_zk = TRUE /\ proof = None
    /\ acc = None /\ report = None

InitCalls ==
    /\ pc = "calls"
    /\ call = None
    /\ Idle

\* A caller evaluates Proof.expected_fr_count(l, z); the function never raises.
CallExpectedFrCount ==
    \E l \in 0..MaxLogN, z \in BOOLEAN :
        /\ pc = "calls"
        /\ call' = [fn |-> "expected_fr_count", log_n |-> l, is_zk |-> z,
                    err |-> "none", ret |-> expected_fr_count(l, z)]
        /\ UNCHANGED <<pc, vk_data, vk, proof_data, log_n, is_zk, proof, acc, report>>

NextLayout == CallExpectedFrCount

SpecLayout == InitCalls /\ [][NextLayout]_vars

\* A caller evaluates fr_inv(a).
CallFrInv ==
    \E a \in 0..(BN254_R - 1) :
        /\ pc = "calls"
        /\ call' = [fn |-> "fr_inv", a |-> a, b |-> 0] @@ fr_inv(a)
        /\ UNCHANGED <<pc, vk_data, vk, proof_data, log_n, is_zk, proof, acc, report>>

\* A caller evaluates fr_div(a, b).
CallFrDiv ==
    \E a \in 0..MaxOperand, b \in 0..MaxOperand :
        /\ pc = "calls"
        /\ call' = [fn |-> "fr_div", a |-> a, b |-> b] @@ fr_div(a, b)
        /\ UNCHANGED <<pc, vk_data, vk, proof_data, log_n, is_zk, proof, acc, report>>

NextField == CallFrInv \/ CallFrDiv

SpecField == InitCalls /\ [][NextField]_vars

(***************************************************************************)
(* Input files.  A generated byte string varies from byte to byte and from *)
(* 32-byte chunk to chunk, so that a slice taken at a wrong offset differs *)
(* from the right one.                                                     *)
(***************************************************************************)
\* Byte k (0-based) of pattern number seed.
PatternByte(k, seed) == (k * 131 + (k \div 256) * 17 + seed * 29 + 5) % 256

\* Byte o (0-based, of 32) of the big-endian encoding of x, 0 <= x < 2^24.
WordByte(x, o) ==
    IF o < 29 THEN 0
    ELSE IF o = 29 THEN (x \div 65536) % 256
    ELSE IF o = 30 THEN (x \div 256) % 256
    ELSE x % 256

\* A VK file of n bytes: three header words (log2_circuit_size,
\* log2_domain_size, num_public_inputs) and pattern bytes after them.
VKBytes(n, seed, logn) ==
    [i \in 1..n |->
        LET k == i - 1
        IN IF k < 32 THEN WordByte(logn, k)
           ELSE IF k < 64 THEN WordByte(logn + 1, k - 32)
           ELSE IF k < 96 THEN WordByte(seed + 1, k - 64)
           ELSE PatternByte(k, seed)]

(***************************************************************************)
(* VK decoder (lines 54-74).                                               *)
(***************************************************************************)
\* Mutant: the commitments are read from offset 64, over the third header word.
VerificationKey_from_bytes_off(data) ==
    IF Len(data) # 1888
    THEN [err |-> "AssertionError", msg |-> "Expected 1888 bytes",
          expected |-> 1888, actual |-> Len(data)]
    ELSE [err |-> "none",
          log2_circuit_size |-> int_from_bytes(Slice(data, 0, 32)),
          log2_domain_size |-> int_from_bytes(Slice(data, 32, 64)),
          num_public_inputs |-> int_from_bytes(Slice(data, 64, 96)),
          commitments |-> [i \in 1..28 |->
              Slice(data, 64 + (i - 1) * 64, 64 + (i - 1) * 64 + 64)]]

\* VerificationKey.from_bytes: the assertion carries the expected and the
\* actual length in its message; commitment i (0-based) is data[96+64i : 96+64i+64].
VerificationKey_from_bytes(data) ==
    IF Len(data) # 1888
    THEN [err |-> "AssertionError", msg |-> "Expected 1888 bytes",
          expected |-> 1888, actual |-> Len(data)]
    ELSE [err |-> "none",
          log2_circuit_size |-> int_from_bytes(Slice(data, 0, 32)),
          log2_domain_size |-> int_from_bytes(Slice(data, 32, 64)),
          num_public_inputs |-> int_from_bytes(Slice(data, 64, 96)),
          commitments |-> [i \in 1..28 |->
              LET offset == 96 + (i - 1) * 64
              IN Slice(data, offset, offset + 64)]]

(***************************************************************************)
(* Calls of the VK decoder: SpecVK.                                        *)
(***************************************************************************)
\* VK files of 1886 to 1890 bytes.
VKLengths == {1886, 1887, 1888, 1889, 1890}

InitVK ==
    /\ pc = "vk_call"
    /\ call = None
    /\ \E n \in VKLengths, seed \in 0..MaxSeed :
           vk_data = VKBytes(n, seed, seed + 2)
    /\ vk = None
    /\ proof_data = NoBytes /\ log_n = 0 /\ is_zk = TRUE /\ proof = None
    /\ acc = None /\ report = None

\* A caller evaluates VerificationKey.from_bytes(vk_data).
CallVKFromBytes ==
    /\ pc = "vk_call"
    /\ vk' = VerificationKey_from_bytes(vk_data)
    /\ pc' = "vk_returned"
    /\ UNCHANGED <<call, vk_data, proof_data, log_n, is_zk, proof, acc, report>>

NextVK == CallVKFromBytes

SpecVK == InitVK /\ [][NextVK]_vars

(***************************************************************************)
(* Proof decoder and section accessors (lines 130-181).                    *)
(***************************************************************************)
\* The last bytes of elements 32..36 of the crafted proof files; the other
\* bytes of these elements are 0.  Elements 32, 33 are u0, u1 of round 0 of a
\* non-ZK proof; elements 34, 35, 36 are libra_sum, u0, u1 of a ZK proof.
Crafted ==
    << <<0, 0, 3, 1, 2>>,                  \* sum = 0      | sum = libra_sum
       <<1, 2, 0, 1, 2>>,                  \* sum # 0      | libra_sum = 0 # sum
       <<4, 4, 5, 1, 2>>,                  \* sum # 0      | 0 # libra_sum # sum
       <<1, BN254_R - 1, 0, 0, 0>> >>      \* sum wraps to 0 | all zero

\* Variant 0 is the plain byte pattern, variants 1..4 are crafted.
Variants == 0..Len(Crafted)

\* A proof file of n bytes.
ProofBytes(n, variant) ==
    [i \in 1..n |->
        LET k == i - 1
            e == k \div 32
        IN IF variant > 0 /\ e >= 32 /\ e <= 36
           THEN (IF k % 32 = 31 THEN Crafted[variant][e - 31] ELSE 0)
           ELSE PatternByte(k, variant)]

\* Mutant: the alignment assertion is missing.
Proof_from_bytes_noalign(data, n, z) ==
    LET expected == expected_fr_count(n, z)
        actual == Len(data) \div 32
    IN IF actual # expected
       THEN [err |-> "AssertionError", msg |-> "Expected Fr elements",
             expected |-> expected, actual |-> actual]
       ELSE [err |-> "none",
             data |-> [i \in 1..actual |-> Slice(data, (i - 1) * 32, i * 32)],
             log_n |-> n, is_zk |-> z]

\* Proof.from_bytes: two assertions, then the split into 32-byte elements.
Proof_from_bytes(data, n, z) ==
    IF Len(data) % 32 # 0
    THEN [err |-> "AssertionError", msg |-> "Proof must be multiple of 32 bytes"]
    ELSE LET expected == expected_fr_count(n, z)
             actual == Len(data) \div 32
         IN IF actual # expected
            THEN [err |-> "AssertionError", msg |-> "Expected Fr elements",
                  expected |-> expected, actual |-> actual]
            ELSE [err |-> "none",
                  data |-> [i \in 1..actual |-> Slice(data, (i - 1) * 32, i * 32)],
                  log_n |-> n, is_zk |-> z]

IndexError == [err |-> "IndexError"]

\* A returned value; isNone tells Python's None.
Ret(v) == [err |-> "none", isNone |-> FALSE, ret |-> v]
RetNone == [err |-> "none", isNone |-> TRUE, ret |-> <<>>]

pairing_point_object(p) == Ret(Slice(p.data, 0, 16))

wire_commitment(p, idx) ==
    LET offset == 16 + idx * 2
    IN IF InRange(p.data, offset) /\ InRange(p.data, offset + 1)
       THEN Ret(p.data[offset + 1] \o p.data[offset + 2])
       ELSE IndexError

libra_sum(p) ==
    IF ~p.is_zk THEN RetNone
    ELSE LET offset == 16 + 16 + 2
         IN IF InRange(p.data, offset) THEN Ret(p.data[offset + 1]) ELSE IndexError

sumcheck_univariate(p, round) ==
    LET base == IF p.is_zk THEN 16 + 16 + 3 ELSE 16 + 16
        univariate_len == IF p.is_zk THEN 9 ELSE 8
        offset == base + round * univariate_len
    IN Ret(Slice(p.data, offset, offset + univariate_len))

\* Mutant: the libra elements are not skipped.
sumcheck_evaluations_nolibra(p) ==
    LET univariate_len == IF p.is_zk THEN 9 ELSE 8
        base == 16 + 16 + p.log_n * univariate_len
        num_evals == IF p.is_zk THEN 41 ELSE 40
    IN Ret(Slice(p.data, base, base + num_evals))

sumcheck_evaluations(p) ==
    LET base0 == IF p.is_zk THEN 16 + 16 + 3 ELSE 16 + 16
        univariate_len == IF p.is_zk THEN 9 ELSE 8
        base == base0 + p.log_n * univariate_len
        num_evals == IF p.is_zk THEN 41 ELSE 40
    IN Ret(Slice(p.data, base, base + num_evals))

(***************************************************************************)
(* Sumcheck round-zero check (lines 343-380).  The observation it prints   *)
(* is the record it returns: what the sum was compared against and what    *)
(* was concluded.                                                          *)
(***************************************************************************)
Observation(zarg, sum, against, kind) ==
    [err |-> "none", is_zk |-> zarg, sum_u |-> sum,
     compared |-> against, kind |-> kind]

\* Mutant: the guard on libra_sum being non-zero is missing.
validate_sumcheck_round_zero_noguard(p, zarg) ==
    LET univariate == sumcheck_univariate(p, 0).ret
    IN IF Len(univariate) < 2 THEN IndexError
       ELSE LET sum_u == fr_add(fr_from_bytes(univariate[1]), fr_from_bytes(univariate[2]))
                lsum == libra_sum(p)
            IN IF zarg
               THEN IF lsum.err # "none" THEN lsum
                    ELSE IF lsum.isNone THEN Observation(zarg, sum_u, "nothing", "silent")
                    ELSE IF sum_u = fr_from_bytes(lsum.ret)
                         THEN Observation(zarg, sum_u, "libra_sum", "equals_libra_sum")
                    ELSE Observation(zarg, sum_u, "libra_sum", "implied_challenge")
               ELSE IF sum_u = 0
                    THEN Observation(zarg, sum_u, "zero", "sum_is_zero")
                    ELSE Observation(zarg, sum_u, "zero", "sum_is_nonzero")

validate_sumcheck_round_zero(p, zarg) ==
    LET univariate == sumcheck_univariate(p, 0).ret
    IN IF Len(univariate) < 2 THEN IndexError
       ELSE LET u0 == fr_from_bytes(univariate[1])
                u1 == fr_from_bytes(univariate[2])
                sum_u == fr_add(u0, u1)
            IN IF zarg
               THEN LET lsum == libra_sum(p)
                    IN IF lsum.err # "none" THEN lsum
                       \* "if libra_sum:" is false for None only: 32 bytes are truthy
                       ELSE IF lsum.isNone \/ lsum.ret = <<>>
                            THEN Observation(zarg, sum_u, "nothing", "silent")
                       ELSE LET ls == fr_from_bytes(lsum.ret)
                            IN IF sum_u = ls
                               THEN Observation(zarg, sum_u, "libra_sum", "equals_libra_sum")
                               ELSE IF ls # 0
                                    THEN LET implied_challenge == fr_div(sum_u, ls)
                                         IN IF implied_challenge.err # "none"
                                            THEN implied_challenge
                                            ELSE Observation(zarg, sum_u, "libra_sum",
                                                             "implied_challenge")
                                    ELSE Observation(zarg, sum_u, "libra_sum", "silent")
               ELSE IF sum_u = 0
                    THEN Observation(zarg, sum_u, "zero", "sum_is_zero")
                    ELSE Observation(zarg, sum_u, "zero", "sum_is_nonzero")

(***************************************************************************)
(* Calls of the proof decoder, the accessors and the check: SpecProof.     *)
(***************************************************************************)
ProofLogNs == (0..MaxSmallLogN) \cup {17}

\* The file has the length the parameters ask for (any variant), or is one
\* byte or one element longer or shorter.
InitProof ==
    /\ pc = "proof_call"
    /\ call = None
    /\ vk_data = NoBytes /\ vk = None
    /\ \E l \in ProofLogNs, z \in BOOLEAN, d \in {-32, -1, 0, 1, 32}, v \in Variants :
           /\ d # 0 => v = 0
           /\ log_n = l
           /\ is_zk = z
           /\ proof_data = ProofBytes(32 * expected_fr_count(l, z) + d, v)
    /\ proof = None
    /\ acc = None /\ report = None

\* A caller evaluates Proof.from_bytes(proof_data, log_n, is_zk).
CallProofFromBytes ==
    /\ pc = "proof_call"
    /\ proof' = Proof_from_bytes(proof_data, log_n, is_zk)
    /\ pc' = IF proof'.err = "none" THEN "decoded" ELSE "raised"
    /\ UNCHANGED <<call, vk_data, vk, proof_data, log_n, is_zk, acc, report>>

Accessed(fn, arg, r) ==
    /\ pc = "decoded"
    /\ acc' = [fn |-> fn, arg |-> arg] @@ r
    /\ pc' = "accessed"
    /\ UNCHANGED <<call, vk_data, vk, proof_data, log_n, is_zk, proof, report>>

CallPairingPointObject ==
    Accessed("pairing_point_object", 0, pairing_point_object(proof))

CallWireCommitment ==
    \E idx \in 0..7 : Accessed("wire_commitment", idx, wire_commitment(proof, idx))

CallLibraSum == Accessed("libra_sum", 0, libra_sum(proof))

CallSumcheckUnivariate ==
    \E r \in 0..17 :
        /\ pc = "decoded"
        /\ r < proof.log_n
        /\ Accessed("sumcheck_univariate", r, sumcheck_univariate(proof, r))

CallSumcheckEvaluations ==
    Accessed("sumcheck_evaluations", 0, sumcheck_evaluations(proof))

\* A caller evaluates validate_sumcheck_round_zero(proof, z).
CallValidateSumcheckRoundZero ==
    \E z \in BOOLEAN :
        /\ pc = "decoded"
        /\ report' = validate_sumcheck_round_zero(proof, z)
        /\ pc' = "checked"
        /\ UNCHANGED <<call, vk_data, vk, proof_data, log_n, is_zk, proof, acc>>

NextProof ==
    \/ CallProofFromBytes
    \/ CallPairingPointObject
    \/ CallWireCommitment
    \/ CallLibraSum
    \/ CallSumcheckUnivariate
    \/ CallSumcheckEvaluations
    \/ CallValidateSumcheckRoundZero

SpecProof == InitProof /\ [][NextProof]_vars

(***************************************************************************)
(* validate_vk_structure, validate_proof_structure, main (lines 238-452).  *)
(* Printing is not modelled; the VK hash is printed only.                  *)
(***************************************************************************)
RECURSIVE DetectInner(_, _, _, _)
\* The inner loop "for try_log in range(4, 30)" from try_log on: the first
\* match is assigned and the loop is left, no match leaves cfg as it is.
DetectInner(len, try_zk, try_log, cfg) ==
    IF try_log >= DetectHi THEN cfg
    ELSE IF expected_fr_count(try_log, try_zk) * 32 = len
         THEN [log_n |-> try_log, is_zk |-> try_zk]
         ELSE DetectInner(len, try_zk, try_log + 1, cfg)

\* Mutant: a match leaves both loops.
DetectConfig_first(len, cfg) ==
    LET zk == DetectInner(len, TRUE, DetectLo, cfg)
    IN IF zk # cfg THEN zk ELSE DetectInner(len, FALSE, DetectLo, cfg)

\* The outer loop "for try_zk in [True, False]": break leaves the inner loop
\* only, so the non-ZK candidates are tried after a ZK match too.
DetectConfig(len, cfg) ==
    DetectInner(len, FALSE, DetectLo, DetectInner(len, TRUE, DetectLo, cfg))

\* The accessors validate_proof_structure calls to print sections; the first
\* exception, if any, leaves the function.
PrintedSections(p, z) ==
    LET rs == << pairing_point_object(p), wire_commitment(p, 0),
                 wire_commitment(p, 1), wire_commitment(p, 2) >>
              \o (IF z THEN << libra_sum(p) >> ELSE << >>)
              \o << sumcheck_univariate(p, 0), sumcheck_evaluations(p) >>
        bad == {i \in 1..Len(rs) : rs[i].err # "none"}
    IN IF bad = {} THEN "none"
       ELSE rs[CHOOSE i \in bad : \A j \in bad : i <= j].err

\* validate_proof_structure(data, n, z): the configuration it ends with and
\* the proof it returns, or the exception that leaves it.
validate_proof_structure(data, n, z) ==
    LET given == [log_n |-> n, is_zk |-> z]
        expected_bytes == expected_fr_count(n, z) * 32
        cfg == IF Len(data) # expected_bytes THEN DetectConfig(Len(data), given)
               ELSE given
        p == Proof_from_bytes(data, cfg.log_n, cfg.is_zk)
        printed == IF p.err = "none" THEN PrintedSections(p, cfg.is_zk) ELSE p.err
    IN [cfg |-> cfg, proof |-> IF printed = "none" \/ p.err # "none" THEN p
                               ELSE [err |-> printed]]

\* The files main() finds: a VK of 1888 bytes (or one byte short) for some
\* log_n, and a proof file whose length is that of some (log_n, is_zk), or
\* misaligned.
MainLogNs == (DetectLo - 1)..MaxMainLogN

InitMain ==
    /\ pc = "validate_vk"
    /\ call = None
    /\ \E l \in MainLogNs, short \in BOOLEAN :
           /\ short => l = DetectLo
           /\ vk_data = VKBytes(IF short THEN 1887 ELSE 1888, 1, l)
    /\ vk = None
    /\ \E l \in MainLogNs, z \in BOOLEAN, d \in {0, 1}, v \in {1, 2} :
           /\ d = 1 => (l = DetectLo /\ z /\ v = 1)
           /\ proof_data = ProofBytes(32 * expected_fr_count(l, z) + d, v)
    /\ log_n = 0 /\ is_zk = TRUE /\ proof = None
    /\ acc = None /\ report = None

\* vk = validate_vk_structure(vk_path); an exception ends the script.
MainValidateVK ==
    /\ pc = "validate_vk"
    /\ vk' = VerificationKey_from_bytes(vk_data)
    /\ pc' = IF vk'.err = "none" THEN "validate_proof" ELSE "aborted"
    /\ UNCHANGED <<call, vk_data, proof_data, log_n, is_zk, proof, acc, report>>

\* proof = validate_proof_structure(proof_path, vk.log2_circuit_size, is_zk=True)
MainValidateProof ==
    /\ pc = "validate_proof"
    /\ LET r == validate_proof_structure(proof_data, vk.log2_circuit_size, TRUE)
       IN /\ log_n' = r.cfg.log_n
          /\ is_zk' = r.cfg.is_zk
          /\ proof' = r.proof
          /\ pc' = IF r.proof.err = "none" THEN "public_inputs" ELSE "aborted"
    /\ UNCHANGED <<call, vk_data, vk, proof_data, acc, report>>

\* validate_public_inputs runs if the file exists; it only prints.
MainValidatePublicInputs ==
    \E exists \in BOOLEAN :
        /\ pc = "public_inputs"
        /\ pc' = "sumcheck"
        /\ UNCHANGED <<call, vk_data, vk, proof_data, log_n, is_zk, proof, acc, report>>

\* validate_sumcheck_round_zero(proof, is_zk=True)
MainValidateSumcheck ==
    /\ pc = "sumcheck"
    /\ report' = validate_sumcheck_round_zero(proof, TRUE)
    /\ pc' = IF report'.err = "none" THEN "complete" ELSE "aborted"
    /\ UNCHANGED <<call, vk_data, vk, proof_data, log_n, is_zk, proof, acc>>

NextMain ==
    \/ MainValidateVK
    \/ MainValidateProof
    \/ MainValidatePublicInputs
    \/ MainValidateSumcheck

SpecMain == InitMain /\ [][NextMain]_vars

(***************************************************************************)
(* Claims about the layout calculator (SpecLayout).                        *)
(***************************************************************************)
IsLayoutCall == call.fn = "expected_fr_count"

\* C1: for every log_n >= 2 and both modes, expected_fr_count returns the sum
\* of the section sizes of the proof layout; for (17, ZK) that sum is 294.
C1_CountIsSectionSum ==
    (IsLayoutCall /\ call.log_n >= 2) =>
        /\ call.err = "none"
        /\ call.ret = 16 + 16 + (IF call.is_zk THEN 3 ELSE 0)
                        + call.log_n * (IF call.is_zk THEN 9 ELSE 8)
                        + (IF call.is_zk THEN 41 ELSE 40)
                        + (IF call.is_zk THEN 8 ELSE 0)
                        + 2 * (call.log_n - 1) + call.log_n
                        + (IF call.is_zk THEN 2 ELSE 0) + 4
                        + (IF call.is_zk THEN 2 ELSE 1)
        /\ (call.log_n = 17 /\ call.is_zk) => call.ret = 294

C1_Witness ==
    IsLayoutCall /\ call.log_n = 17 /\ call.is_zk /\ call.ret = 294

\* C5: expected_fr_count fails with InvalidParameter for every log_n < 2
\* instead of returning a count.
C5_RejectsSmallLogN ==
    (IsLayoutCall /\ call.log_n < 2) => call.err = "InvalidParameter"

\* C6: for valid log_n the count grows strictly with log_n in either mode,
\* and the ZK count is strictly greater than the non-ZK count.
C6_StrictlyIncreasing ==
    (IsLayoutCall /\ call.log_n >= 2) =>
        /\ expected_fr_count(call.log_n + 1, call.is_zk) > call.ret
        /\ call.is_zk => call.ret > expected_fr_count(call.log_n, FALSE)
        /\ ~call.is_zk => expected_fr_count(call.log_n, TRUE) > call.ret

C6_Witness ==
    IsLayoutCall /\ call.log_n = 20 /\ ~call.is_zk /\ call.ret = 295

(***************************************************************************)
(* Claims about the field arithmetic (SpecField).                          *)
(***************************************************************************)
\* C4: inverse(0) fails with ArithmeticError and never returns a value, so
\* divide(a, 0) fails for every a.
C4_InverseOfZeroFails ==
    ((call.fn = "fr_inv" /\ call.a = 0) \/ (call.fn = "fr_div" /\ call.b = 0)) =>
        call.err = "ArithmeticError"

(***************************************************************************)
(* Claims about the VK decoder (SpecVK).                                   *)
(***************************************************************************)
\* C3: VK decoding succeeds exactly for 1888 bytes and otherwise fails with
\* a size mismatch carrying expected 1888 and the actual length; on success
\* there are exactly 28 commitments and commitment i is the unchanged slice
\* bytes[96 + 64 i, 96 + 64 i + 64) for i in 0..27.
C3_VKDecode ==
    pc = "vk_returned" =>
        /\ vk.err = "none" <=> Len(vk_data) = 1888
        /\ vk.err # "none" =>
              /\ vk.err = "AssertionError"
              /\ vk.expected = 1888
              /\ vk.actual = Len(vk_data)
              /\ "commitments" \notin DOMAIN vk
        /\ vk.err = "none" =>
              /\ Len(vk.commitments) = 28
              /\ \A i \in 0..27 :
                    /\ Len(vk.commitments[i + 1]) = 64
                    /\ \A j \in 0..63 :
                          vk.commitments[i + 1][j + 1] = vk_data[96 + 64 * i + j + 1]

C3_Witness ==
    /\ pc = "vk_returned"
    /\ vk.err = "none"
    /\ Len(vk_data) = 1888
    /\ vk.commitments[1] # vk.commitments[2]
    /\ vk.commitments[28][64] = vk_data[1888]

(***************************************************************************)
(* Claims about the proof decoder, accessors and check (SpecProof).        *)
(***************************************************************************)
Aligned == Len(proof_data) % 32 = 0
ElementCount == Len(proof_data) \div 32
Fits == Aligned /\ ElementCount = expected_fr_count(log_n, is_zk)

\* C2: Proof decoding returns a Proof exactly when the length is a multiple
\* of 32 and length / 32 is the expected element count; a misaligned length
\* fails on the alignment assertion, an aligned length with another count
\* fails on the count assertion (carrying both counts), and a failure returns
\* no Proof at all.  For (17, ZK) exactly 9408 bytes decode.
C2_ProofDecode ==
    pc # "proof_call" =>
        /\ proof.err = "none" <=> Fits
        /\ ~Aligned =>
              /\ proof.err = "AssertionError"
              /\ proof.msg = "Proof must be multiple of 32 bytes"
        /\ (Aligned /\ ~Fits) =>
              /\ proof.err = "AssertionError"
              /\ proof.msg = "Expected Fr elements"
              /\ proof.expected = expected_fr_count(log_n, is_zk)
              /\ proof.actual = ElementCount
        /\ proof.err # "none" => "data" \notin DOMAIN proof
        /\ proof.err = "none" =>
              /\ Len(proof.data) = ElementCount
              /\ proof.log_n = log_n
              /\ proof.is_zk = is_zk
              /\ \A e \in 1..ElementCount :
                    proof.data[e] = SubSeq(proof_data, 32 * (e - 1) + 1, 32 * e)
        /\ (log_n = 17 /\ is_zk) => (proof.err = "none" <=> Len(proof_data) = 9408)

C2_Witness ==
    /\ pc = "decoded"
    /\ log_n = 17 /\ is_zk
    /\ Len(proof_data) = 9408
    /\ Len(proof.data) = 294

\* Round 0 of a decoded proof as the claims state it: u0, u1 are the first
\* two elements after the header sections, libra_sum is element 34.
ClaimBase == IF proof.is_zk THEN 35 ELSE 32
ClaimSum == fr_add(fr_from_bytes(proof.data[ClaimBase + 1]),
                   fr_from_bytes(proof.data[ClaimBase + 2]))
ClaimLibraSum == fr_from_bytes(proof.data[35])

Elements(from, n) == [k \in 1..n |-> proof.data[from + k]]

\* C10: on a decoded proof with log_n >= 2 every accessor reads inside the
\* element sequence and returns its section: pairing-point object = elements
\* [0, 16); wire commitment idx = elements 16 + 2 idx and 16 + 2 idx + 1;
\* libra sum (ZK) = element 34; univariate r = 9 (ZK) or 8 elements from
\* base + r * len, base = 35 (ZK) or 32; the evaluations start where the last
\* univariate ends, are 41 (ZK) or 40 elements and end inside the sequence.
C10_AccessorSections ==
    (pc = "accessed" /\ proof.log_n >= 2) =>
        LET n == Len(proof.data)
            len == IF proof.is_zk THEN 9 ELSE 8
            base == IF proof.is_zk THEN 35 ELSE 32
            evals == IF proof.is_zk THEN 41 ELSE 40
            last_end == base + (proof.log_n - 1) * len + len
        IN /\ acc.err = "none"
           /\ acc.fn = "pairing_point_object" =>
                 16 <= n /\ acc.ret = Elements(0, 16)
           /\ acc.fn = "wire_commitment" =>
                 /\ 16 + 2 * acc.arg + 1 < 32
                 /\ acc.ret = proof.data[16 + 2 * acc.arg + 1]
                                 \o proof.data[16 + 2 * acc.arg + 2]
                 /\ Len(acc.ret) = 64
           /\ acc.fn = "libra_sum" =>
                 IF proof.is_zk
                 THEN 34 < n /\ ~acc.isNone /\ acc.ret = proof.data[35]
                 ELSE acc.isNone
           /\ acc.fn = "sumcheck_univariate" =>
                 /\ base + acc.arg * len + len <= n
                 /\ Len(acc.ret) = len
                 /\ acc.ret = Elements(base + acc.arg * len, len)
           /\ acc.fn = "sumcheck_evaluations" =>
                 /\ last_end + evals <= n
                 /\ Len(acc.ret) = evals
                 /\ acc.ret = Elements(last_end, evals)

C10_Witness ==
    /\ pc = "accessed"
    /\ proof.log_n = 17 /\ proof.is_zk
    /\ acc.fn = "sumcheck_evaluations"
    /\ Len(acc.ret) = 41
    /\ acc.ret[1] = proof.data[35 + 17 * 9 + 1]

(***************************************************************************)
(* Claims about main() and the auto-detection (SpecMain).                  *)
(***************************************************************************)
\* C8: the round-zero check branches on the decoded proof's own is_zk flag:
\* a non-ZK proof has its sum compared against 0 (and a mismatch reported),
\* a ZK proof has it compared against libra_sum; no decoded proof passes
\* without one of the two comparisons.
C8_BranchFollowsProofFlag ==
    pc = "complete" =>
        /\ ~proof.is_zk =>
              /\ report.compared = "zero"
              /\ ClaimSum # 0 => report.kind = "sum_is_nonzero"
        /\ proof.is_zk => report.compared = "libra_sum"

\* The candidates of the detection loop that match a byte length.
Candidates == (DetectLo..(DetectHi - 1)) \X BOOLEAN
Matches(len) == {c \in Candidates : 32 * expected_fr_count(c[1], c[2]) = len}
MatchesOf(len, z) == {c \in Matches(len) : c[2] = z}

\* validate_proof_structure has run and went through the detection loop.
Detected ==
    /\ pc \in {"public_inputs", "sumcheck", "complete", "aborted"}
    /\ vk.err = "none"
    /\ Len(proof_data) # 32 * expected_fr_count(vk.log2_circuit_size, TRUE)

\* C9 as stated: at most one candidate (log_n, is_zk) matches a byte length,
\* so the configuration the loop leaves is that one match.
C9_DetectionUnambiguous ==
    Detected =>
        /\ Cardinality(Matches(Len(proof_data))) <= 1
        /\ \A c \in Matches(Len(proof_data)) : log_n = c[1] /\ is_zk = c[2]

\* The byte lengths that a ZK and a non-ZK candidate both match.
AmbiguousLengths ==
    {32 * expected_fr_count(c[1], c[2]) : c \in
        {c \in Candidates : Cardinality(Matches(32 * expected_fr_count(c[1], c[2]))) > 1}}

\* C9 amended: at most one log_n matches per value of is_zk; a ZK and a
\* non-ZK candidate can match the same length (5568 and 9792 bytes), and
\* then the loop leaves the non-ZK one, which overwrote the ZK match; with
\* no match the given configuration stays.
C9_DetectionPerMode ==
    Detected =>
        LET len == Len(proof_data)
        IN /\ Cardinality(MatchesOf(len, TRUE)) <= 1
           /\ Cardinality(MatchesOf(len, FALSE)) <= 1
           /\ AmbiguousLengths = {5568, 9792}
           /\ \A c \in MatchesOf(len, FALSE) : log_n = c[1] /\ is_zk = FALSE
           /\ MatchesOf(len, FALSE) = {} =>
                 \A c \in MatchesOf(len, TRUE) : log_n = c[1] /\ is_zk = TRUE
           /\ Matches(len) = {} => (log_n = vk.log2_circuit_size /\ is_zk = TRUE)

C9_Witness ==
    /\ Detected
    /\ Len(proof_data) = 5568
    /\ Matches(5568) = {<<7, TRUE>>, <<9, FALSE>>}
    /\ log_n = 9 /\ is_zk = FALSE
    /\ proof.err = "none"

====
